---- MODULE Spec2Model ----
(***************************************************************************)
(* Model of the explicit-labeler reconciliation engine                     *)
(* (app/mark_explicit_music.py): title normalizer, explicitness            *)
(* classifier, progress store and the library/artist/album/track traversal *)
(* of main(), run repeatedly against one remote catalog.                   *)
(*                                                                         *)
(* Strings the code inspects character by character (titles, file paths)   *)
(* are sequences of one-character strings.                                 *)
(***************************************************************************)
EXTENDS Integers, Sequences, FiniteSets, Bags, TLC

(***************************************************************************)
(* Bounds of the model                                                     *)
(***************************************************************************)
\* number of invocations of main() in one behaviour
MaxRuns == 2
\* number of failing remote calls injected in one behaviour
MaxFaults == 1
\* number of fragments a title under examination is put together from
MaxParts == 3
\* number of part paths of a track under examination
MaxPaths == 2

(***************************************************************************)
(* Characters                                                              *)
(***************************************************************************)
IsWs(c) == c = " "

UpperCase ==
    <<"A", "B", "C", "D", "E", "F", "G", "H", "I", "J", "K", "L", "M", "N",
      "O", "P", "Q", "R", "S", "T", "U", "V", "W", "X", "Y", "Z">>

LowerCase ==
    <<"a", "b", "c", "d", "e", "f", "g", "h", "i", "j", "k", "l", "m", "n",
      "o", "p", "q", "r", "s", "t", "u", "v", "w", "x", "y", "z">>

\* str.lower() of one character (re.IGNORECASE compares the same way)
Lower(c) ==
    IF \E i \in 1..26 : UpperCase[i] = c
    THEN LowerCase[CHOOSE i \in 1..26 : UpperCase[i] = c]
    ELSE c

\* \w of the regular expression engine: letters, digits and the underscore
IsWordChar(c) ==
    \/ \E i \in 1..26 : LowerCase[i] = Lower(c)
    \/ c \in {"0", "1", "2", "3", "4", "5", "6", "7", "8", "9", "_"}

\* first index >= i of t that is not whitespace (Len(t)+1 when there is none)
RECURSIVE SkipWs(_, _)
SkipWs(t, i) == IF i <= Len(t) /\ IsWs(t[i]) THEN SkipWs(t, i + 1) ELSE i

\* last index <= i of t that is not whitespace (0 when there is none)
RECURSIVE SkipWsBack(_, _)
SkipWsBack(t, i) == IF i >= 1 /\ IsWs(t[i]) THEN SkipWsBack(t, i - 1) ELSE i

(***************************************************************************)
(* Title normalizer                                                        *)
(***************************************************************************)
E_TOKEN == <<"[", "E", "]">>

EXPLICIT_LABEL == "Explicit"

\* \[E\] with IGNORECASE matches t at index i
IsTokenAt(t, i) ==
    /\ i >= 1
    /\ i + 2 <= Len(t)
    /\ t[i] = "["
    /\ Lower(t[i + 1]) = "e"
    /\ t[i + 2] = "]"

\* LEADING_E.sub("", t)  with LEADING_E = ^\s*\[E\]\s*
SubLeading(t) ==
    LET k == SkipWs(t, 1)
    IN  IF IsTokenAt(t, k) THEN SubSeq(t, SkipWs(t, k + 3), Len(t)) ELSE t

\* TRAILING_E.sub("", t)  with TRAILING_E = \s*\[E\]\s*$
SubTrailing(t) ==
    LET e == SkipWsBack(t, Len(t))
    IN  IF IsTokenAt(t, e - 2) THEN SubSeq(t, 1, SkipWsBack(t, e - 3)) ELSE t

\* INLINE_E.sub("", t): one left-to-right pass over non-overlapping matches
RECURSIVE SubInlineFrom(_, _)
SubInlineFrom(t, i) ==
    IF i > Len(t) THEN <<>>
    ELSE IF IsTokenAt(t, i) THEN SubInlineFrom(t, i + 3)
    ELSE <<t[i]>> \o SubInlineFrom(t, i + 1)

SubInline(t) == SubInlineFrom(t, 1)

\* MULTISPACE.sub(" ", t)  with MULTISPACE = \s{2,}
RECURSIVE SubMultispaceFrom(_, _)
SubMultispaceFrom(t, i) ==
    IF i > Len(t) THEN <<>>
    ELSE IF IsWs(t[i])
         THEN LET j == SkipWs(t, i)
              IN  (IF j - i >= 2 THEN <<" ">> ELSE <<t[i]>>) \o SubMultispaceFrom(t, j)
         ELSE <<t[i]>> \o SubMultispaceFrom(t, i + 1)

SubMultispace(t) == SubMultispaceFrom(t, 1)

\* str.strip()
StrStrip(t) == SubSeq(t, SkipWs(t, 1), SkipWsBack(t, Len(t)))

strip_e(title) ==
    IF title = <<>> THEN title
    ELSE StrStrip(SubMultispace(SubInline(SubTrailing(SubLeading(title)))))

\* line 84 with the marker put behind the title
apply_front_Behind(title) ==
    LET base == strip_e(title)
    IN  IF base # <<>> THEN StrStrip(base \o <<" ">> \o E_TOKEN) ELSE E_TOKEN

apply_front(title) ==
    LET base == strip_e(title)
    IN  IF base # <<>> THEN StrStrip(E_TOKEN \o <<" ">> \o base) ELSE E_TOKEN

(***************************************************************************)
(* Explicitness classifier                                                 *)
(***************************************************************************)
\* "[e]" in s.lower()
HasLowerToken(s) == \E i \in 1..Len(s) : IsTokenAt(s, i)

EXPLICIT_WORD == <<"e", "x", "p", "l", "i", "c", "i", "t">>

\* EXPLICIT_WORD_RE.search(s) is not None,  EXPLICIT_WORD_RE = \bexplicit\b
ExplicitWordIn(s) ==
    \E i \in 1..Len(s) :
        /\ i + 7 <= Len(s)
        /\ \A k \in 0..7 : Lower(s[i + k]) = EXPLICIT_WORD[k + 1]
        /\ (i = 1 \/ ~IsWordChar(s[i - 1]))
        /\ (i + 8 > Len(s) \/ ~IsWordChar(s[i + 8]))

\* p.rfind("/"): index of the last "/" at or before i, 0 when there is none
RECURSIVE LastSlash(_, _)
LastSlash(p, i) == IF i >= 1 /\ p[i] # "/" THEN LastSlash(p, i - 1) ELSE i

\* last index <= i of p that is not "/"
RECURSIVE SkipSlashBack(_, _)
SkipSlashBack(p, i) == IF i >= 1 /\ p[i] = "/" THEN SkipSlashBack(p, i - 1) ELSE i

\* the test of line 111 applied to the whole path
basename_WholePath(p) == p

\* os.path.basename
basename(p) == SubSeq(p, LastSlash(p, Len(p)) + 1, Len(p))

\* line 133 without os.path.dirname: the base name is the file's
dirname_KeepsFile(p) == p

\* os.path.dirname: the head up to the last "/", trailing slashes removed
\* unless the head consists of slashes only
dirname(p) ==
    LET i    == LastSlash(p, Len(p))
        last == SkipSlashBack(p, i)
    IN  IF last = 0 THEN SubSeq(p, 1, i) ELSE SubSeq(p, 1, last)

NameIsExplicit(name) == HasLowerToken(name) \/ ExplicitWordIn(name)

\* track_filename_is_explicit over the track's part paths
track_filename_is_explicit(paths) ==
    \E i \in 1..Len(paths) : NameIsExplicit(basename(paths[i]))

\* album_folder_is_explicit over the part paths of the tracks it looks at, in
\* order: the verdict of the first path found, False when there is none
RECURSIVE album_folder_is_explicit(_)
album_folder_is_explicit(trackPaths) ==
    IF trackPaths = <<>> THEN FALSE
    ELSE IF Head(trackPaths) # <<>>
         THEN NameIsExplicit(basename(dirname(Head(trackPaths)[1])))
         ELSE album_folder_is_explicit(Tail(trackPaths))

(***************************************************************************)
(* The remote catalog.  Artists, albums and tracks are named by their      *)
(* ratingKey.  The catalog a behaviour runs against is the value of the    *)
(* variable catalog, which no step of the program changes.                 *)
(***************************************************************************)
VARIABLE catalog

\* args.library, in command-line order
LIBRARIES == catalog.LIBRARIES

\* section(name).search(libtype="artist") of each library, in catalog order
SectionArtists == catalog.SectionArtists

ArtistTitle == catalog.ArtistTitle

\* artist.albums()
ArtistAlbums == catalog.ArtistAlbums

\* album.tracks()
AlbumTracks == catalog.AlbumTracks

\* part.file of every media part of a track
PartPaths == catalog.PartPaths

AlbumIds == DOMAIN AlbumTracks
TrackIds == DOMAIN PartPaths
ItemIds == AlbumIds \cup TrackIds

\* three music libraries, the second with two artists, the third empty;
\* the calls of the server can fail
MainCatalog ==
    [LIBRARIES |-> <<"L1", "L2", "L3">>,
     SectionArtists |-> [L1 |-> <<1>>, L2 |-> <<2, 3>>, L3 |-> <<>>],
     ArtistTitle |-> (1 :> "A1") @@ (2 :> "A2") @@ (3 :> "A3"),
     ArtistAlbums |-> (1 :> <<11, 12>>) @@ (2 :> <<13>>) @@ (3 :> <<14>>),
     AlbumTracks |->
        (11 :> <<21, 22>>) @@ (12 :> <<23>>) @@ (13 :> <<24>>) @@ (14 :> <<>>),
     PartPaths |->
        (21 :> << <<"/", "m", "/", "d", "[", "E", "]", "/", "f", "[", "e", "]">> >>) @@
        (22 :> << <<"/", "m", "/", "d", "[", "E", "]", "/", "g">> >>) @@
        (23 :> << <<"/", "m", "/", "h", "/", "i">> >>) @@
        (24 :> << <<"/", "m", "/", "h", "/", "e", "x", "p", "l", "i", "c", "i", "t">> >>),
     reliable |-> FALSE]

\* titles and labels of the catalog before the first run
InitialTitle ==
    (11 :> <<"a">>) @@
    (12 :> <<"[", "E", "]", " ", "d">>) @@
    (13 :> <<"b">>) @@
    (14 :> <<"c">>) @@
    (21 :> <<"b">>) @@
    (22 :> <<"c", " ", "[", "e", "]">>) @@
    (23 :> <<"e">>) @@
    (24 :> <<"f">>)

InitialLabels ==
    [i \in 11..14 \cup 21..24 |-> IF i \in {12, 22} THEN {EXPLICIT_LABEL} ELSE {}]

\* the command lines the runs are started with
ArgSets ==
    [resume : BOOLEAN, force : {FALSE}, dry_run : BOOLEAN,
     remove_labels : {FALSE}, artist : {""}]
    \cup [resume : {TRUE}, force : {TRUE}, dry_run : {FALSE},
          remove_labels : {FALSE}, artist : {""}]
    \cup [resume : {TRUE}, force : {FALSE}, dry_run : {FALSE},
          remove_labels : {TRUE}, artist : {""}]
    \cup [resume : {TRUE}, force : {FALSE}, dry_run : {FALSE},
          remove_labels : {FALSE}, artist : {"A3"}]

(***************************************************************************)
(* State                                                                   *)
(***************************************************************************)
VARIABLES
    \* progress store: each file is <<>> when absent, <<content>> otherwise
    progressFile, processedFile,
    \* remote catalog
    title, labels,
    \* main(): arguments and position
    pc, args,
    \* main(): loaded progress record, resume flags, loaded processed set
    progress, skip_until_library, skip_until_artist, skip_until_album,
    found_resume_point, processed_albums,
    \* main(): loop variables
    li, artist, artist_key, albums, ai, album_key, album_is_explicit,
    tracks, ti, is_explicit,
    \* bookkeeping of the model
    runs, faults, lastExit,
    \* history: the calls of the current run, the titles the catalog had
    \* when it started, and the albums whose processing completed without
    \* error in a non-dry run so far
    trace, title0, completed,
    \* the normalizer or classifier call under examination
    call

storeVars == <<progressFile, processedFile>>
remoteVars == <<title, labels>>
flagVars == <<progress, skip_until_library, skip_until_artist, skip_until_album,
              found_resume_point, processed_albums>>
artistVars == <<artist, artist_key, albums>>
albumVars == <<album_key, album_is_explicit, tracks>>
trackVars == <<ti, is_explicit>>
vars == <<storeVars, remoteVars, pc, args, flagVars, li, artistVars, ai,
          albumVars, trackVars, runs, faults, lastExit, trace, title0,
          completed, catalog, call>>

\* what no step of a run changes
envVars == <<catalog, call>>

\* no call under examination
NoCall == [fn |-> "none"]

\* the record load_progress() returns when there is nothing to load; None
\* is the empty string or the empty tuple
DefaultProgress == [last_library |-> "", last_artist |-> <<>>, last_album |-> <<>>]

NoArgs == [resume |-> FALSE, force |-> FALSE, dry_run |-> FALSE,
           remove_labels |-> FALSE, artist |-> ""]

\* no process is running: main()'s variables hold nothing
InitProcess ==
    /\ pc = "idle"
    /\ args = NoArgs
    /\ progress = DefaultProgress
    /\ skip_until_library = ""
    /\ skip_until_artist = <<>>
    /\ skip_until_album = <<>>
    /\ found_resume_point = FALSE
    /\ processed_albums = {}
    /\ li = 1
    /\ artist = 0
    /\ artist_key = <<>>
    /\ albums = <<>>
    /\ ai = 1
    /\ album_key = <<>>
    /\ album_is_explicit = FALSE
    /\ tracks = <<>>
    /\ ti = 1
    /\ is_explicit = FALSE
    /\ runs = 0
    /\ faults = 0
    /\ lastExit = "none"
    /\ trace = <<>>
    /\ completed = {}

Init ==
    /\ catalog = MainCatalog
    /\ call = NoCall
    /\ progressFile = <<>>
    /\ processedFile = <<>>
    /\ title = InitialTitle
    /\ labels = InitialLabels
    /\ title0 = InitialTitle
    /\ InitProcess

(***************************************************************************)
(* Progress store                                                          *)
(***************************************************************************)
\* What a file of the store holds besides a saved JSON object: text that
\* is not valid JSON (an empty or cut-short file), a JSON array, and the
\* JSON object without keys
Corrupt == [json |-> "invalid"]
JsonArray == [json |-> "array"]
EmptyObject == [json |-> "object"]

\* load_progress(): what json.load() gives, whatever it is; the default
\* record when there is no file or the file is not valid JSON
load_progress(file) ==
    IF file # <<>> /\ file[1] # Corrupt THEN file[1] ELSE DefaultProgress

\* dict.get(key): None (the value none stands for) when the key is missing
Get(d, key, none) == IF key \in DOMAIN d THEN d[key] ELSE none

\* save_progress() losing the album key
save_progress_NoAlbum(library_name, akey, bkey) ==
    << [last_library |-> library_name, last_artist |-> akey, last_album |-> <<>>] >>

\* save_progress(): the file after the call
save_progress(library_name, akey, bkey) ==
    << [last_library |-> library_name, last_artist |-> akey, last_album |-> bkey] >>

\* load_processed_albums(): set(data.get("albums", [])), the empty set
\* when there is no file or reading it raises. The "albums" list of the
\* file is a bag: the keys with the number of times each is listed.
load_processed_albums(file) ==
    IF file # <<>> /\ file[1] \notin {Corrupt, JsonArray}
    THEN BagToSet(Get(file[1], "albums", EmptyBag))
    ELSE {}

\* save_processed_album() adding the key to the list of the file as it is
save_processed_album_Appends(file, bkey) ==
    << [albums |-> (IF file # <<>> /\ file[1] \notin {Corrupt, JsonArray}
                    THEN Get(file[1], "albums", EmptyBag)
                    ELSE EmptyBag) (+) SetToBag({bkey})] >>

\* save_processed_album(): the file after the call, list(processed) of the
\* loaded set with the key added
save_processed_album(file, bkey) ==
    << [albums |-> SetToBag(load_processed_albums(file) \cup {bkey})] >>

\* clear_progress() removing the progress file only
clear_progress_KeepsProcessed(files) ==
    [i \in 1..Len(files) |-> IF i = 1 THEN <<>> ELSE files[i]]

\* clear_progress(): both files removed
clear_progress(files) == [i \in 1..Len(files) |-> <<>>]

\* get_album_key()
get_album_key(library_name, artist_title, album_title, album_rating_key) ==
    <<library_name, artist_title, album_title, album_rating_key>>

\* str.lower() of a label tag
TagLower(tag) == IF tag = "Explicit" THEN "explicit" ELSE tag

\* has_label(): case-insensitive comparison of the tags
has_label(item, label) == \E l \in labels[item] : TagLower(l) = TagLower(label)

(***************************************************************************)
(* main(): start of a run (argument parsing up to the library loop)        *)
(***************************************************************************)
\* an entry of the history: the call, the library and item it is made for,
\* its outcome, and the key (line 476) of the album being handled
Event(op, lib, item, info, key) ==
    [op |-> op, lib |-> lib, item |-> item, info |-> info, key |-> key]

LogKey(op, lib, item, info, key) ==
    trace' = Append(trace, Event(op, lib, item, info, key))

\* a call made in the body of the album loop
Log(op, lib, item, info) == LogKey(op, lib, item, info, album_key)

CanFail == ~catalog.reliable /\ faults < MaxFaults

\* --clear-progress: clear_progress() and return
ClearProgressCmd ==
    /\ pc = "idle"
    /\ runs < MaxRuns
    /\ runs' = runs + 1
    /\ progressFile' = clear_progress(storeVars)[1]
    /\ processedFile' = clear_progress(storeVars)[2]
    /\ lastExit' = "none"
    /\ trace' = <<>>
    /\ UNCHANGED <<remoteVars, pc, args, flagVars, li, artistVars, ai,
                   albumVars, trackVars, faults, completed, title0>>
    /\ UNCHANGED envVars

\* lines 363-415: load the stores, set the resume flags
StartRunWith(a) ==
    /\ runs < MaxRuns
    /\ LET loaded == IF a.resume THEN load_progress(progressFile)
                     ELSE EmptyObject
           \* line 367 (and 409): progress.get() of a value that is not a
           \* dict raises AttributeError, which nothing catches
           fatal  == loaded = JsonArray
           values == IF fatal THEN DefaultProgress
                     ELSE [last_library |-> Get(loaded, "last_library", ""),
                           last_artist |-> Get(loaded, "last_artist", <<>>),
                           last_album |-> Get(loaded, "last_album", <<>>)]
       IN  /\ args' = a
           /\ progress' = values
           /\ processed_albums' = IF a.force THEN {}
                                  ELSE load_processed_albums(processedFile)
           /\ skip_until_library' = IF a.resume THEN values.last_library ELSE ""
           /\ skip_until_artist' = IF a.resume THEN values.last_artist ELSE <<>>
           /\ skip_until_album' = IF a.resume THEN values.last_album ELSE <<>>
           /\ pc' = IF fatal THEN "crashed" ELSE "library"
           /\ lastExit' = IF fatal THEN "aborted" ELSE "running"
           /\ trace' = IF fatal
                       THEN <<Event("progressError", "", 0, "", <<>>)>>
                       ELSE <<>>
    /\ title0' = title
    /\ found_resume_point' = FALSE
    /\ runs' = runs + 1
    /\ li' = 1
    /\ artist' = 0
    /\ artist_key' = <<>>
    /\ albums' = <<>>
    /\ ai' = 1
    /\ album_key' = <<>>
    /\ album_is_explicit' = FALSE
    /\ tracks' = <<>>
    /\ ti' = 1
    /\ is_explicit' = FALSE
    /\ UNCHANGED <<storeVars, remoteVars, faults, completed>>
    /\ UNCHANGED envVars

StartRun ==
    /\ pc = "idle"
    /\ \E a \in ArgSets : StartRunWith(a)

(***************************************************************************)
(* main(): one iteration of the library loop, lines 418-473                *)
(***************************************************************************)
library_name == LIBRARIES[li]

InLibrary == pc = "library" /\ li <= Len(LIBRARIES)

\* line 420: still looking for the resume library
SeekingLibrary == skip_until_library # "" /\ ~found_resume_point

\* lines 420-432 leave the library loop's body running
LibraryAdmitted == ~SeekingLibrary \/ library_name = skip_until_library

\* found_resume_point after lines 420-432
FoundAfterHead == IF SeekingLibrary THEN TRUE ELSE found_resume_point

\* music.search(libtype="artist"[, title=args.artist])
SearchArtists(lib, filter) ==
    IF filter = "" THEN SectionArtists[lib]
    ELSE SelectSeq(SectionArtists[lib], LAMBDA a : ArtistTitle[a] = filter)

\* lines 445-462: the artist loop; st holds artist, artist_key and the two
\* resume flags the loop assigns
RECURSIVE ArtistLoop(_, _, _, _, _)
ArtistLoop(st, artists, i, lib, found) ==
    IF i > Len(artists) THEN st
    ELSE LET a   == artists[i]
             st1 == [st EXCEPT !.artist = a,
                               !.artist_key = <<ArtistTitle[a], a>>]
             st2 == IF st1.skip_until_artist # <<>> /\ found
                       /\ lib = skip_until_library
                    THEN st1
                    ELSE IF st1.skip_until_artist # <<>> /\ found
                            /\ lib # skip_until_library
                    THEN [st1 EXCEPT !.skip_until_artist = <<>>,
                                     !.skip_until_album = <<>>]
                    ELSE st1
         IN  ArtistLoop(st2, artists, i + 1, lib, found)

AfterArtistLoop ==
    ArtistLoop([artist |-> artist, artist_key |-> artist_key,
                skip_until_artist |-> skip_until_artist,
                skip_until_album |-> skip_until_album],
               SearchArtists(library_name, args.artist), 1, library_name,
               FoundAfterHead)

NextLibrary == li' = li + 1 /\ pc' = "library"

\* lines 420-428: a library before the resume library is skipped
SkipLibrary ==
    /\ InLibrary
    /\ ~LibraryAdmitted
    /\ NextLibrary
    /\ LogKey("skipLibrary", library_name, 0, "", <<>>)
    /\ UNCHANGED <<storeVars, remoteVars, args, flagVars, artistVars, ai,
                   albumVars, trackVars, runs, faults, lastExit, completed, title0>>
    /\ UNCHANGED envVars

\* lines 434-438: plex.library.section() raises
SectionFails ==
    /\ InLibrary
    /\ LibraryAdmitted
    /\ CanFail
    /\ faults' = faults + 1
    /\ found_resume_point' = FoundAfterHead
    /\ NextLibrary
    /\ LogKey("sectionError", library_name, 0, "", <<>>)
    /\ UNCHANGED <<storeVars, remoteVars, args, progress, skip_until_library,
                   skip_until_artist, skip_until_album, processed_albums,
                   artistVars, ai, albumVars, trackVars, runs, lastExit,
                   completed, title0>>
    /\ UNCHANGED envVars

\* an exception nothing catches leaves main(): traceback, the run is over
Crash(op) ==
    /\ pc' = "crashed"
    /\ lastExit' = "aborted"
    /\ LogKey(op, library_name, 0, "", <<>>)

\* line 440: music.search() raises, outside every try
SearchFails ==
    /\ InLibrary
    /\ LibraryAdmitted
    /\ CanFail
    /\ faults' = faults + 1
    /\ found_resume_point' = FoundAfterHead
    /\ Crash("searchError")
    /\ UNCHANGED <<storeVars, remoteVars, args, progress, skip_until_library,
                   skip_until_artist, skip_until_album, processed_albums,
                   li, artistVars, ai, albumVars, trackVars, runs, completed, title0>>
    /\ UNCHANGED envVars

\* lines 441-443: --artist given and nothing matched
NoArtistsMatched ==
    /\ InLibrary
    /\ LibraryAdmitted
    /\ args.artist # ""
    /\ SearchArtists(library_name, args.artist) = <<>>
    /\ found_resume_point' = FoundAfterHead
    /\ NextLibrary
    /\ LogKey("noArtists", library_name, 0, "", <<>>)
    /\ UNCHANGED <<storeVars, remoteVars, args, progress, skip_until_library,
                   skip_until_artist, skip_until_album, processed_albums,
                   artistVars, ai, albumVars, trackVars, runs, faults,
                   lastExit, completed, title0>>
    /\ UNCHANGED envVars

\* the artist loop has run and line 464 is reached
PastArtistLoop ==
    /\ InLibrary
    /\ LibraryAdmitted
    /\ ~(args.artist # "" /\ SearchArtists(library_name, args.artist) = <<>>)
    /\ found_resume_point' = FoundAfterHead
    /\ skip_until_artist' = AfterArtistLoop.skip_until_artist
    /\ skip_until_album' = AfterArtistLoop.skip_until_album
    /\ artist_key' = AfterArtistLoop.artist_key
    /\ artist' = AfterArtistLoop.artist

\* line 464: artist was never bound (no artist in any library so far)
ArtistUnbound ==
    /\ PastArtistLoop
    /\ AfterArtistLoop.artist = 0
    /\ Crash("artistUnbound")
    /\ UNCHANGED <<storeVars, remoteVars, args, progress, skip_until_library,
                   processed_albums, li, albums, ai, albumVars, trackVars,
                   runs, faults, completed, title0>>
    /\ UNCHANGED envVars

\* lines 465-469: artist.albums() raises; continue in the library loop
AlbumsFails ==
    /\ PastArtistLoop
    /\ AfterArtistLoop.artist # 0
    /\ CanFail
    /\ faults' = faults + 1
    /\ NextLibrary
    /\ LogKey("albumsError", library_name, AfterArtistLoop.artist, "", <<>>)
    /\ UNCHANGED <<storeVars, remoteVars, args, progress, skip_until_library,
                   processed_albums, albums, ai, albumVars, trackVars, runs,
                   lastExit, completed, title0>>
    /\ UNCHANGED envVars

\* lines 464-475: the albums of the artist the loop variable is left at
EnterArtist ==
    /\ PastArtistLoop
    /\ AfterArtistLoop.artist # 0
    /\ albums' = ArtistAlbums[AfterArtistLoop.artist]
    /\ ai' = 1
    /\ pc' = "album"
    /\ LogKey("albums", library_name, AfterArtistLoop.artist, "", <<>>)
    /\ UNCHANGED <<storeVars, remoteVars, args, progress, skip_until_library,
                   processed_albums, li, albumVars, trackVars, runs, faults,
                   lastExit, completed, title0>>
    /\ UNCHANGED envVars

(***************************************************************************)
(* main(): one iteration of the album loop, lines 475-498                  *)
(***************************************************************************)
InAlbum == pc = "album" /\ ai <= Len(albums)

album == albums[ai]

\* line 476
CurrentAlbumKey ==
    get_album_key(library_name, ArtistTitle[artist], title[album], album)

\* line 479: the album loop is still looking for the resume album
SeekingAlbum ==
    /\ skip_until_album # <<>>
    /\ found_resume_point
    /\ library_name = skip_until_library

NextAlbum == ai' = ai + 1 /\ pc' = "album"

\* line 475: the albums are exhausted, back to the library loop
AlbumLoopEnd ==
    /\ pc = "album"
    /\ ai > Len(albums)
    /\ NextLibrary
    /\ UNCHANGED <<storeVars, remoteVars, args, flagVars, artistVars, ai,
                   albumVars, trackVars, runs, faults, lastExit, trace,
                   completed, title0>>
    /\ UNCHANGED envVars

\* lines 479-481: an album before the resume album is skipped
ResumeSkipAlbum ==
    /\ InAlbum
    /\ SeekingAlbum
    /\ skip_until_album # CurrentAlbumKey
    /\ album_key' = CurrentAlbumKey
    /\ NextAlbum
    /\ LogKey("resumeSkip", library_name, album, "", CurrentAlbumKey)
    /\ UNCHANGED <<storeVars, remoteVars, args, flagVars, li, artistVars,
                   album_is_explicit, tracks, trackVars, runs, faults,
                   lastExit, completed, title0>>
    /\ UNCHANGED envVars

\* lines 479-486 let the album through; line 484 clears the flag
AlbumAdmitted ==
    /\ InAlbum
    /\ ~(SeekingAlbum /\ skip_until_album # CurrentAlbumKey)
    /\ album_key' = CurrentAlbumKey
    /\ skip_until_album' = IF SeekingAlbum THEN <<>> ELSE skip_until_album

\* line 489 consulted only when the run does not resume
AlreadyProcessed_UnlessResuming ==
    CurrentAlbumKey \in processed_albums /\ ~args.force /\ ~args.resume

\* line 489
AlreadyProcessed == CurrentAlbumKey \in processed_albums /\ ~args.force

\* lines 489-491: the album is in the processed set
ProcessedSkip ==
    /\ AlbumAdmitted
    /\ AlreadyProcessed
    /\ NextAlbum
    /\ LogKey("processedSkip", library_name, album, "", CurrentAlbumKey)
    /\ UNCHANGED <<storeVars, remoteVars, args, progress, skip_until_library,
                   skip_until_artist, found_resume_point, processed_albums,
                   li, artistVars, album_is_explicit, tracks, trackVars,
                   runs, faults, lastExit, completed, title0>>
    /\ UNCHANGED envVars

\* lines 493-498: album.tracks() raises
TracksFails ==
    /\ AlbumAdmitted
    /\ ~AlreadyProcessed
    /\ CanFail
    /\ faults' = faults + 1
    /\ NextAlbum
    /\ LogKey("tracksError", library_name, album, "", CurrentAlbumKey)
    /\ UNCHANGED <<storeVars, remoteVars, args, progress, skip_until_library,
                   skip_until_artist, found_resume_point, processed_albums,
                   li, artistVars, album_is_explicit, tracks, trackVars,
                   runs, lastExit, completed, title0>>
    /\ UNCHANGED envVars

\* lines 493-495: the tracks are listed
EnterAlbum ==
    /\ AlbumAdmitted
    /\ ~AlreadyProcessed
    /\ tracks' = AlbumTracks[album]
    /\ pc' = "albumTitle"
    /\ LogKey("tracks", library_name, album, "", CurrentAlbumKey)
    /\ UNCHANGED <<storeVars, remoteVars, args, progress, skip_until_library,
                   skip_until_artist, found_resume_point, processed_albums,
                   li, artistVars, ai, album_is_explicit, trackVars, runs,
                   faults, lastExit, completed, title0>>
    /\ UNCHANGED envVars

(***************************************************************************)
(* Mutation protocol                                                       *)
(***************************************************************************)
\* how edit_title_unlock_set_lock ends: the primary path verified
\* ("primary"); or it raised or did not verify and then the direct PUT
\* verified ("fallback") or did not (the warning, "failed")
EditOutcomes ==
    {[primary |-> "verified", result |-> "primary"]}
    \cup [primary : {"raised", "unverified"}, result : {"fallback", "failed"}]

\* edit_title_unlock_set_lock(item, new_title, dry_run) with curr # new_title
EditTitle(item, new_title) ==
    IF args.dry_run
    THEN /\ Log("dryRunTitle", library_name, item, "")
         /\ UNCHANGED <<title, faults>>
    ELSE \E o \in EditOutcomes :
            /\ o.result # "primary" => CanFail
            /\ faults' = IF o.result = "primary" THEN faults ELSE faults + 1
            /\ title' = IF o.result = "failed" THEN title
                        ELSE [title EXCEPT ![item] = new_title]
            /\ Log(IF o.primary = "raised" THEN "editTitleRaised" ELSE "editTitle",
                   library_name, item, o.result)

\* the desired title equals the current one: no call at all
NoEdit(item) ==
    /\ Log("titleOk", library_name, item, "")
    /\ UNCHANGED <<title, faults>>

\* add_label_if_missing() without the dry-run test of line 151
AddLabel_IgnoresDryRun(item, raised) ==
    IF has_label(item, EXPLICIT_LABEL)
    THEN /\ ~raised
         /\ Log("labelOk", library_name, item, "")
         /\ UNCHANGED <<labels, faults>>
    ELSE IF raised
    THEN /\ CanFail
         /\ faults' = faults + 1
         /\ Log("addLabel", library_name, item, "raised")
         /\ UNCHANGED labels
    ELSE /\ labels' = [labels EXCEPT ![item] = @ \cup {EXPLICIT_LABEL}]
         /\ Log("addLabel", library_name, item, "ok")
         /\ UNCHANGED faults

\* add_label_if_missing(item, label, dry_run); raised tells whether
\* item.addLabel() raised
AddLabel(item, raised) ==
    IF has_label(item, EXPLICIT_LABEL)
    THEN /\ ~raised
         /\ Log("labelOk", library_name, item, "")
         /\ UNCHANGED <<labels, faults>>
    ELSE IF args.dry_run
    THEN /\ ~raised
         /\ Log("dryRunAddLabel", library_name, item, "")
         /\ UNCHANGED <<labels, faults>>
    ELSE IF raised
    THEN /\ CanFail
         /\ faults' = faults + 1
         /\ Log("addLabel", library_name, item, "raised")
         /\ UNCHANGED labels
    ELSE /\ labels' = [labels EXCEPT ![item] = @ \cup {EXPLICIT_LABEL}]
         /\ Log("addLabel", library_name, item, "ok")
         /\ UNCHANGED faults

\* remove_label_if_present(item, label, dry_run): an exception of
\* item.removeLabel() is swallowed
RemoveLabel(item) ==
    IF ~has_label(item, EXPLICIT_LABEL)
    THEN /\ Log("labelOk", library_name, item, "")
         /\ UNCHANGED <<labels, faults>>
    ELSE IF args.dry_run
    THEN /\ Log("dryRunRemoveLabel", library_name, item, "")
         /\ UNCHANGED <<labels, faults>>
    ELSE \/ /\ labels' = [labels EXCEPT ![item] = @ \ {EXPLICIT_LABEL}]
            /\ Log("removeLabel", library_name, item, "ok")
            /\ UNCHANGED faults
         \/ /\ CanFail
            /\ faults' = faults + 1
            /\ Log("removeLabel", library_name, item, "raised")
            /\ UNCHANGED labels

(***************************************************************************)
(* main(): the body of the album loop, lines 500-565                       *)
(***************************************************************************)
\* the part paths album_folder_is_explicit looks at: those of the sample
\* track (tracks[0]), or of a fresh album.tracks() when there is none
SamplePaths ==
    IF tracks # <<>> THEN << PartPaths[tracks[1]] >>
    ELSE [i \in 1..Len(AlbumTracks[album]) |-> PartPaths[AlbumTracks[album][i]]]

\* line 507
DesiredAlbumTitle(explicit, t) == IF explicit THEN apply_front(t) ELSE strip_e(t)

\* lines 501-514: classify the album and bring its title in line
AlbumTitle ==
    /\ pc = "albumTitle"
    /\ album_is_explicit' = album_folder_is_explicit(SamplePaths)
    /\ LET desired == DesiredAlbumTitle(album_folder_is_explicit(SamplePaths),
                                        title[album])
       IN  IF desired # title[album]
           THEN EditTitle(album, desired)
           ELSE NoEdit(album)
    /\ pc' = "albumLabel"
    /\ UNCHANGED <<storeVars, labels, args, flagVars, li, artistVars, ai,
                   album_key, tracks, trackVars, runs, lastExit, completed, title0>>
    /\ UNCHANGED envVars

\* lines 516-520: the album's label
AlbumLabel ==
    /\ pc = "albumLabel"
    /\ \/ /\ album_is_explicit
          /\ \E raised \in BOOLEAN :
                /\ AddLabel(album, raised)
                /\ pc' = IF raised THEN "albumError" ELSE "track"
       \/ /\ ~album_is_explicit
          /\ args.remove_labels
          /\ RemoveLabel(album)
          /\ pc' = "track"
       \/ /\ ~album_is_explicit
          /\ ~args.remove_labels
          /\ pc' = "track"
          /\ UNCHANGED <<labels, faults, trace>>
    /\ ti' = 1
    /\ UNCHANGED <<storeVars, title, args, flagVars, li, artistVars, ai,
                   albumVars, is_explicit, runs, lastExit, completed, title0>>
    /\ UNCHANGED envVars

InTrack == pc = "track" /\ ti <= Len(tracks)

track == tracks[ti]

\* lines 524-545: classify the track and bring its title in line
TrackTitle ==
    /\ InTrack
    /\ is_explicit' = track_filename_is_explicit(PartPaths[track])
    /\ IF track_filename_is_explicit(PartPaths[track])
       THEN IF apply_front(title[track]) # title[track]
            THEN EditTitle(track, apply_front(title[track]))
            ELSE NoEdit(track)
       ELSE IF HasLowerToken(title[track])
               /\ strip_e(title[track]) # title[track]
            THEN EditTitle(track, strip_e(title[track]))
            ELSE NoEdit(track)
    /\ pc' = "trackLabel"
    /\ UNCHANGED <<storeVars, labels, args, flagVars, li, artistVars, ai,
                   albumVars, ti, runs, lastExit, completed, title0>>
    /\ UNCHANGED envVars

\* the track's label decided by the verdict of the album
TrackLabel_ByAlbumVerdict ==
    /\ pc = "trackLabel"
    /\ \/ /\ album_is_explicit
          /\ \E raised \in BOOLEAN :
                /\ AddLabel(track, raised)
                /\ pc' = IF raised THEN "albumError" ELSE "track"
       \/ /\ ~album_is_explicit
          /\ args.remove_labels
          /\ RemoveLabel(track)
          /\ pc' = "track"
       \/ /\ ~album_is_explicit
          /\ ~args.remove_labels
          /\ pc' = "track"
          /\ UNCHANGED <<labels, faults, trace>>
    /\ ti' = ti + 1
    /\ UNCHANGED <<storeVars, title, args, flagVars, li, artistVars, ai,
                   albumVars, is_explicit, runs, lastExit, completed, title0>>
    /\ UNCHANGED envVars

\* the track's label with the exception of a label addition swallowed
TrackLabel_SwallowsAdd ==
    /\ pc = "trackLabel"
    /\ \/ /\ is_explicit
          /\ \E raised \in BOOLEAN :
                /\ AddLabel(track, raised)
                /\ pc' = "track"
       \/ /\ ~is_explicit
          /\ args.remove_labels
          /\ RemoveLabel(track)
          /\ pc' = "track"
       \/ /\ ~is_explicit
          /\ ~args.remove_labels
          /\ pc' = "track"
          /\ UNCHANGED <<labels, faults, trace>>
    /\ ti' = ti + 1
    /\ UNCHANGED <<storeVars, title, args, flagVars, li, artistVars, ai,
                   albumVars, is_explicit, runs, lastExit, completed, title0>>
    /\ UNCHANGED envVars

\* lines 536, 546-549: the track's label, then the next track
TrackLabel ==
    /\ pc = "trackLabel"
    /\ \/ /\ is_explicit
          /\ \E raised \in BOOLEAN :
                /\ AddLabel(track, raised)
                /\ pc' = IF raised THEN "albumError" ELSE "track"
       \/ /\ ~is_explicit
          /\ args.remove_labels
          /\ RemoveLabel(track)
          /\ pc' = "track"
       \/ /\ ~is_explicit
          /\ ~args.remove_labels
          /\ pc' = "track"
          /\ UNCHANGED <<labels, faults, trace>>
    /\ ti' = ti + 1
    /\ UNCHANGED <<storeVars, title, args, flagVars, li, artistVars, ai,
                   albumVars, is_explicit, runs, lastExit, completed, title0>>
    /\ UNCHANGED envVars

\* lines 551-553: the track loop is over; mark the album processed
MarkProcessed ==
    /\ pc = "track"
    /\ ti > Len(tracks)
    /\ IF args.dry_run
       THEN UNCHANGED <<processedFile, trace>>
       ELSE /\ processedFile' = save_processed_album(processedFile, album_key)
            /\ Log("markProcessed", library_name, album, "")
    /\ pc' = "saveProgress"
    /\ UNCHANGED <<progressFile, remoteVars, args, flagVars, li, artistVars,
                   ai, albumVars, trackVars, runs, faults, lastExit,
                   completed, title0>>
    /\ UNCHANGED envVars

\* lines 555-558: save the progress record, go to the next album
SaveProgress ==
    /\ pc = "saveProgress"
    /\ progressFile' = save_progress(library_name, artist_key, album_key)
    /\ completed' = IF args.dry_run THEN completed ELSE completed \cup {album}
    /\ NextAlbum
    /\ Log("saveProgress", library_name, album, "done")
    /\ UNCHANGED <<processedFile, remoteVars, args, flagVars, li, artistVars,
                   albumVars, trackVars, runs, faults, lastExit, title0>>
    /\ UNCHANGED envVars

\* the handler moving on without the checkpoint of line 564
AlbumError_NoCheckpoint ==
    /\ pc = "albumError"
    /\ NextAlbum
    /\ Log("saveProgress", library_name, album, "error")
    /\ UNCHANGED <<storeVars, remoteVars, args, flagVars, li, artistVars,
                   albumVars, trackVars, runs, faults, lastExit, completed,
                   title0>>
    /\ UNCHANGED envVars

\* lines 560-565: the handler of an exception in the album's body
AlbumError ==
    /\ pc = "albumError"
    /\ progressFile' = save_progress(library_name, artist_key, album_key)
    /\ NextAlbum
    /\ Log("saveProgress", library_name, album, "error")
    /\ UNCHANGED <<processedFile, remoteVars, args, flagVars, li, artistVars,
                   albumVars, trackVars, runs, faults, lastExit, completed, title0>>
    /\ UNCHANGED envVars

(***************************************************************************)
(* main(): end of the run, lines 567-577                                   *)
(***************************************************************************)
EndRun ==
    /\ pc = "library"
    /\ li > Len(LIBRARIES)
    /\ IF args.dry_run
       THEN UNCHANGED storeVars
       ELSE /\ progressFile' = clear_progress(storeVars)[1]
            /\ processedFile' = clear_progress(storeVars)[2]
    /\ pc' = "done"
    /\ lastExit' = "completed"
    /\ UNCHANGED <<remoteVars, args, flagVars, li, artistVars, ai, albumVars,
                   trackVars, runs, faults, trace, completed, title0>>
    /\ UNCHANGED envVars

\* the process is gone: nothing of main()'s variables survives it
ProcessGone ==
    /\ pc' = "idle"
    /\ progress' = DefaultProgress
    /\ skip_until_library' = ""
    /\ skip_until_artist' = <<>>
    /\ skip_until_album' = <<>>
    /\ found_resume_point' = FALSE
    /\ processed_albums' = {}
    /\ li' = 1
    /\ artist' = 0
    /\ artist_key' = <<>>
    /\ albums' = <<>>
    /\ ai' = 1
    /\ album_key' = <<>>
    /\ album_is_explicit' = FALSE
    /\ tracks' = <<>>
    /\ ti' = 1
    /\ is_explicit' = FALSE
    /\ trace' = <<>>
    /\ title0' = title

\* main() has returned or raised: the process exits
Exit ==
    /\ pc \in {"done", "crashed"}
    /\ ProcessGone
    /\ UNCHANGED <<storeVars, remoteVars, args, runs, faults, lastExit, completed>>
    /\ UNCHANGED envVars

\* the process is terminated from outside (interrupt signal)
Kill ==
    /\ pc \notin {"idle", "done", "crashed"}
    /\ ProcessGone
    /\ lastExit' = "aborted"
    /\ UNCHANGED <<storeVars, remoteVars, args, runs, faults, completed>>
    /\ UNCHANGED envVars

\* the process is terminated inside save_progress(), lines 259-266: open()
\* has truncated the progress file and json.dump() has not finished
KillInSaveProgress ==
    /\ pc \in {"saveProgress", "albumError"}
    /\ ProcessGone
    /\ lastExit' = "aborted"
    /\ progressFile' = <<Corrupt>>
    /\ UNCHANGED <<processedFile, remoteVars, args, runs, faults, completed>>
    /\ UNCHANGED envVars

\* the process is terminated inside save_processed_album(), lines 298-303
KillInSaveProcessed ==
    /\ pc = "track"
    /\ ti > Len(tracks)
    /\ ~args.dry_run
    /\ ProcessGone
    /\ lastExit' = "aborted"
    /\ processedFile' = <<Corrupt>>
    /\ UNCHANGED <<progressFile, remoteVars, args, runs, faults, completed>>
    /\ UNCHANGED envVars

Next ==
    \/ ClearProgressCmd
    \/ StartRun
    \/ SkipLibrary
    \/ SectionFails
    \/ SearchFails
    \/ NoArtistsMatched
    \/ ArtistUnbound
    \/ AlbumsFails
    \/ EnterArtist
    \/ AlbumLoopEnd
    \/ ResumeSkipAlbum
    \/ ProcessedSkip
    \/ TracksFails
    \/ EnterAlbum
    \/ AlbumTitle
    \/ AlbumLabel
    \/ TrackTitle
    \/ TrackLabel
    \/ MarkProcessed
    \/ SaveProgress
    \/ AlbumError
    \/ EndRun
    \/ Exit
    \/ Kill
    \/ KillInSaveProgress
    \/ KillInSaveProcessed

Spec == Init /\ [][Next]_vars

(***************************************************************************)
(* The normalizer and the classifier on their own: a title or the part     *)
(* paths of an album's tracks are drawn, and the functions are applied the *)
(* way lines 501-545 of main() apply them.                                 *)
(***************************************************************************)
\* the pieces titles are put together from: the characters "[", "E", "e",
\* "]", space and a letter, the marker and its halves
Fragments ==
    {<<"[">>, <<"E">>, <<"e">>, <<"]">>, <<" ">>, <<"a">>,
     <<"[", "E", "]">>, <<"[", "e", "]">>, <<"[", "E">>, <<"E", "]">>}

RECURSIVE TitlesOf(_)
TitlesOf(n) ==
    IF n = 0 THEN {<<>>}
    ELSE LET S == TitlesOf(n - 1)
         IN  S \cup {t \o f : t \in S, f \in Fragments}

\* part paths: an optional higher directory, an optional parent directory
\* and a file name (empty for a path that ends with a slash)
HigherDirs == {<<>>, <<"/", "[", "E", "]">>}

ParentDirs ==
    {<<>>, <<"/", "d">>, <<"/", "d", " ", "[", "e", "]">>,
     <<"/", "E", "x", "p", "l", "i", "c", "i", "t">>,
     <<"/", "e", "x", "p", "l", "i", "c", "i", "t", "s">>}

FileNames ==
    {<<"/", "f">>, <<"/", "f", "[", "E", "]">>,
     <<"/", "a", " ", "e", "x", "p", "l", "i", "c", "i", "t">>, <<"/">>}

Paths ==
    {h \o d \o f : h \in HigherDirs, d \in ParentDirs, f \in FileNames}
    \cup {<<"f", "[", "e", "]">>}

RECURSIVE PathListsOf(_)
PathListsOf(n) ==
    IF n = 0 THEN {<<>>}
    ELSE LET S == PathListsOf(n - 1)
         IN  S \cup {Append(ps, q) : ps \in S, q \in Paths}

\* the part paths of the tracks of an album, track by track, with up to n
\* paths for the first track: no track, one track, or a second track in an
\* explicit folder behind it
TrackLists(n) ==
    {<<>>}
    \cup {<<ps>> : ps \in PathListsOf(n)}
    \cup {<<ps, << <<"/", "[", "E", "]", "/", "g">> >> >> : ps \in PathListsOf(n)}

\* the inputs of the calls: a title of up to parts fragments with a verdict,
\* or the tracks of an album with up to paths part paths
CallInputs(parts, paths) ==
    [fn : {"input"}, kind : {"title"}, arg : TitlesOf(parts), verdict : BOOLEAN,
     result : {<<>>}, result2 : {<<>>}]
    \cup [fn : {"input"}, kind : {"tracks"}, arg : TrackLists(paths),
          verdict : {FALSE}, result : {<<>>}, result2 : {<<>>}]

InitCall ==
    /\ catalog = MainCatalog
    /\ call \in CallInputs(MaxParts, MaxPaths)
    /\ progressFile = <<>>
    /\ processedFile = <<>>
    /\ title = InitialTitle
    /\ labels = InitialLabels
    /\ title0 = InitialTitle
    /\ InitProcess

runVars == <<storeVars, remoteVars, pc, args, flagVars, li, artistVars, ai,
             albumVars, trackVars, runs, faults, lastExit, trace, title0,
             completed, catalog>>

\* line 507 (and lines 529, 539 for a track): the desired title of an item
\* with the given verdict
DesiredTitle ==
    /\ call.fn = "input"
    /\ call.kind = "title"
    /\ call' = [call EXCEPT !.fn = "desiredTitle",
                            !.result = DesiredAlbumTitle(call.verdict, call.arg)]
    /\ UNCHANGED runVars

\* the next run: the desired title of the title the item was given, with
\* the same verdict
DesiredTitleAgain ==
    /\ call.fn = "desiredTitle"
    /\ call' = [call EXCEPT !.fn = "desiredTitleAgain",
                            !.result2 = DesiredAlbumTitle(call.verdict, call.result)]
    /\ UNCHANGED runVars

\* the next run after the verdict has changed
DesiredTitleFlipped ==
    /\ call.fn = "desiredTitle"
    /\ call' = [call EXCEPT !.fn = "desiredTitleFlipped",
                            !.result2 = DesiredAlbumTitle(~call.verdict, call.result)]
    /\ UNCHANGED runVars

\* line 525: the verdict of the album's first track
ClassifyTrack ==
    /\ call.fn = "input"
    /\ call.kind = "tracks"
    /\ call.arg # <<>>
    /\ call' = [call EXCEPT !.fn = "classifyTrack",
                            !.result = track_filename_is_explicit(call.arg[1])]
    /\ UNCHANGED runVars

\* lines 502-503: the verdict of the album, from the sample track or from
\* a fresh listing when the album has no track
ClassifyAlbum ==
    /\ call.fn = "input"
    /\ call.kind = "tracks"
    /\ call' = [call EXCEPT !.fn = "classifyAlbum",
                            !.result = album_folder_is_explicit(
                                           IF call.arg # <<>> THEN <<call.arg[1]>>
                                           ELSE call.arg)]
    /\ UNCHANGED runVars

NextCall ==
    \/ DesiredTitle
    \/ DesiredTitleAgain
    \/ DesiredTitleFlipped
    \/ ClassifyTrack
    \/ ClassifyAlbum

SpecCall == InitCall /\ [][NextCall]_vars

(***************************************************************************)
(* Runs that nothing disturbs: a server whose calls succeed, no            *)
(* termination from outside, one library with one artist and one album.    *)
(***************************************************************************)
\* album "Greatest Hits" of artist "X" in the folder "Greatest Hits [E]"
\* with the files "01 Intro.mp3" and "02 Rough [E].mp3"
HitsCatalog ==
    [LIBRARIES |-> <<"Music">>,
     SectionArtists |-> [Music |-> <<1>>],
     ArtistTitle |-> (1 :> "X"),
     ArtistAlbums |-> (1 :> <<11>>),
     AlbumTracks |-> (11 :> <<21, 22>>),
     PartPaths |->
        (21 :> << <<"/", "m", "/", "X", "/", "G", "r", "e", "a", "t", "e", "s", "t",
                 " ", "H", "i", "t", "s", " ", "[", "E", "]", "/", "0", "1", " ",
                 "I", "n", "t", "r", "o", ".", "m", "p", "3">> >>) @@
        (22 :> << <<"/", "m", "/", "X", "/", "G", "r", "e", "a", "t", "e", "s", "t",
                 " ", "H", "i", "t", "s", " ", "[", "E", "]", "/", "0", "2", " ",
                 "R", "o", "u", "g", "h", " ", "[", "E", "]", ".", "m", "p", "3">> >>),
     reliable |-> TRUE]

HitsTitle ==
    (11 :> <<"G", "r", "e", "a", "t", "e", "s", "t", " ", "H", "i", "t", "s">>) @@
    (21 :> <<"I", "n", "t", "r", "o">>) @@
    (22 :> <<"R", "o", "u", "g", "h">>)

HitsLabels == (11 :> {}) @@ (21 :> {}) @@ (22 :> {})

\* one album with one track, whose only part path is p
TinyCatalog(p) ==
    [LIBRARIES |-> <<"Music">>,
     SectionArtists |-> [Music |-> <<1>>],
     ArtistTitle |-> (1 :> "X"),
     ArtistAlbums |-> (1 :> <<11>>),
     AlbumTracks |-> (11 :> <<21>>),
     PartPaths |-> (21 :> <<p>>),
     reliable |-> TRUE]

\* clean or explicit folder, clean or explicit file name
TinyPaths ==
    {<<"/", "d", "/", "f">>,
     <<"/", "d", " ", "[", "E", "]", "/", "f">>,
     <<"/", "d", "/", "f", " ", "[", "e", "]">>,
     <<"/", "d", " ", "[", "E", "]", "/", "f", " ", "[", "e", "]">>}

TinyCatalogs == {TinyCatalog(p) : p \in TinyPaths}

\* titles with the marker in front, behind, inside, repeated, in lower
\* case, nested, and with extra whitespace
TinyTitles ==
    {<<>>, <<"a">>, <<"[", "E", "]", " ", "a">>, <<"a", " ", "[", "e", "]">>, <<"a", " ", "[", "E", "]", " ", "b">>,
     <<" ", "a", " ", " ", "b", " ">>, <<"[", "E", "]">>, <<"[", "[", "e", "]", "E", "]">>}

\* the progress files a run can find: none, a saved record, text
\* that is not valid JSON, a JSON array, a JSON object without keys
HitsProgressFiles ==
    {<<>>,
     <<[last_library |-> "Music", last_artist |-> <<"X", 1>>,
        last_album |-> get_album_key("Music", "X", HitsTitle[11], 11)]>>,
     <<Corrupt>>, <<JsonArray>>, <<EmptyObject>>}

InitQuiet ==
    /\ call = NoCall
    /\ processedFile = <<>>
    /\ \/ /\ catalog = HitsCatalog
          /\ title = HitsTitle
          /\ labels = HitsLabels
          /\ progressFile \in HitsProgressFiles
       \/ /\ catalog \in TinyCatalogs
          /\ title \in [{11, 21} -> TinyTitles]
          /\ labels \in [{11, 21} -> {{}, {EXPLICIT_LABEL}}]
          /\ progressFile = <<>>
    /\ title0 = title
    /\ InitProcess

\* the command lines of these runs: no dry run
QuietArgSets ==
    [resume : BOOLEAN, force : BOOLEAN, dry_run : {FALSE},
     remove_labels : BOOLEAN, artist : {""}]

\* --resume is tried where there are progress files to resume from; on
\* the other catalogs the command line of the first run is given again
StartQuietRun ==
    /\ pc = "idle"
    /\ \E a \in QuietArgSets :
          /\ a.resume => catalog = HitsCatalog
          /\ (catalog \in TinyCatalogs /\ runs >= 1) => a = args
          /\ StartRunWith(a)

NextQuiet ==
    \/ StartQuietRun
    \/ EnterArtist
    \/ EnterAlbum
    \/ AlbumTitle
    \/ AlbumLabel
    \/ TrackTitle
    \/ TrackLabel
    \/ MarkProcessed
    \/ SaveProgress
    \/ AlbumLoopEnd
    \/ EndRun
    \/ Exit

SpecQuiet == InitQuiet /\ [][NextQuiet]_vars

(***************************************************************************)
(* edit_title_unlock_set_lock() step by step, lines 178-213: one call,     *)
(* made from one of its three call sites in main(), against a server       *)
(* whose requests can succeed, have no effect, or raise.  call.at is the   *)
(* line the call has reached; call.remote is the title the server holds,   *)
(* call.seen the title attribute of the local item.                        *)
(***************************************************************************)
\* the call sites: line 512 (album), 533 (explicit track), 543 (clean track)
EditSites == {512, 533, 543}

\* the statement of main() that follows the call
AfterCall(site) == IF site = 512 THEN 517 ELSE IF site = 533 THEN 536 ELSE 546

EditTitles == {<<"a">>, <<"[", "E", "]", " ", "a">>}

\* the first try block only: the direct PUT is not guarded
Catch_FirstTryOnly(line) == IF line \in 186..197 THEN 200 ELSE 560

\* where an exception raised at a line of the function goes: the body of
\* the first try (186-197) is left for the second try statement (line 200),
\* the body of the second (201-210) for the warning (line 213); from any
\* other line it leaves the function and reaches the handler of the
\* album's body (line 560)
Catch(line) ==
    IF line \in 186..197 THEN 200 ELSE IF line \in 201..210 THEN 213 ELSE 560

\* the comparison never succeeding
Verified_Never(seen, new_title) == FALSE

\* lines 195 and 208: (item.title or "") == new_title
Verified(seen, new_title) == seen = new_title

\* a request sent to the server: its name, the line that sends it, whether
\* it raised, and for a re-fetch that did not raise the title it brought
Request(req, line, raised, seen) ==
    [req |-> req, line |-> line, raised |-> raised, seen |-> seen]

EditInputs ==
    {[fn |-> "edit_title", site |-> site, curr |-> c, new_title |-> n,
      dry_run |-> d, unlockField |-> u, lockField |-> l, creds |-> k,
      at |-> 179, remote |-> c, seen |-> c, sent |-> <<>>, warned |-> 0,
      out |-> "running"] :
        site \in EditSites, c \in EditTitles, n \in EditTitles,
        d \in BOOLEAN, u \in BOOLEAN, l \in BOOLEAN, k \in BOOLEAN}

InitEdit ==
    /\ catalog = MainCatalog
    /\ call \in EditInputs
    /\ progressFile = <<>>
    /\ processedFile = <<>>
    /\ title = InitialTitle
    /\ labels = InitialLabels
    /\ title0 = InitialTitle
    /\ InitProcess

\* lines 179-184: nothing to do, or a dry run
EditStart ==
    /\ call.at = 179
    /\ call' = IF call.curr = call.new_title
               THEN [call EXCEPT !.at = 214, !.out = "same"]
               ELSE IF call.dry_run
               THEN [call EXCEPT !.at = 214, !.out = "dry"]
               ELSE [call EXCEPT !.at = 186]
    /\ UNCHANGED runVars

\* lines 186-188: item.unlockField("title") if the item has it
UnlockField ==
    /\ call.at = 186
    /\ \/ /\ ~call.unlockField
          /\ call' = [call EXCEPT !.at = 189]
       \/ /\ call.unlockField
          /\ \E raised \in BOOLEAN :
                call' = [call EXCEPT
                           !.sent = Append(@, Request("unlockField", 187, raised, <<>>)),
                           !.at = IF raised THEN Catch(187) ELSE 189]
    /\ UNCHANGED runVars

\* lines 189-190: item.edit(): the server takes the title or not, and the
\* request raises or not
Edit ==
    /\ call.at = 189
    /\ \E applied \in BOOLEAN, raised \in BOOLEAN :
          call' = [call EXCEPT
                     !.sent = Append(@, Request("edit", 189, raised, <<>>)),
                     !.remote = IF applied THEN call.new_title ELSE @,
                     !.at = IF raised THEN Catch(189) ELSE 191]
    /\ UNCHANGED runVars

\* lines 191-193: item.lockField("title") if the item has it
LockField ==
    /\ call.at = 191
    /\ \/ /\ ~call.lockField
          /\ call' = [call EXCEPT !.at = 194]
       \/ /\ call.lockField
          /\ \E raised \in BOOLEAN :
                call' = [call EXCEPT
                           !.sent = Append(@, Request("lockField", 192, raised, <<>>)),
                           !.at = IF raised THEN Catch(192) ELSE 194]
    /\ UNCHANGED runVars

\* lines 194-197: re-fetch and compare; return when the title is the new one
Refresh ==
    /\ call.at = 194
    /\ \/ call' = [call EXCEPT
                     !.sent = Append(@, Request("refresh", 194, TRUE, <<>>)),
                     !.at = Catch(194)]
       \/ call' = [call EXCEPT
                     !.sent = Append(@, Request("refresh", 194, FALSE, <<call.remote>>)),
                     !.seen = call.remote,
                     !.at = IF Verified(call.remote, call.new_title)
                            THEN 214 ELSE 200,
                     !.out = IF Verified(call.remote, call.new_title)
                             THEN "updated" ELSE @]
    /\ UNCHANGED runVars

\* lines 200-205: the direct PUT, if there are a session, a base URL and a
\* token; resp.ok or not
Put ==
    /\ call.at = 200
    /\ \/ /\ ~call.creds
          /\ call' = [call EXCEPT !.at = 213]
       \/ /\ call.creds
          /\ \E applied \in BOOLEAN, result \in {"ok", "notOk", "raised"} :
                call' = [call EXCEPT
                           !.sent = Append(@, Request("put", 203, result = "raised", <<>>)),
                           !.remote = IF applied THEN call.new_title ELSE @,
                           !.at = IF result = "raised" THEN Catch(203)
                                  ELSE IF result = "ok" THEN 207 ELSE 213]
    /\ UNCHANGED runVars

\* lines 206-210: re-fetch and compare after the PUT
RefreshAfterPut ==
    /\ call.at = 207
    /\ \/ call' = [call EXCEPT
                     !.sent = Append(@, Request("refresh", 207, TRUE, <<>>)),
                     !.at = Catch(207)]
       \/ call' = [call EXCEPT
                     !.sent = Append(@, Request("refresh", 207, FALSE, <<call.remote>>)),
                     !.seen = call.remote,
                     !.at = IF Verified(call.remote, call.new_title)
                            THEN 214 ELSE 213,
                     !.out = IF Verified(call.remote, call.new_title)
                             THEN "updatedByPut" ELSE @]
    /\ UNCHANGED runVars

\* line 213: the warning
Warn ==
    /\ call.at = 213
    /\ call' = [call EXCEPT !.warned = @ + 1, !.at = 214, !.out = "warned"]
    /\ UNCHANGED runVars

\* the function returns to the statement after its call
Return ==
    /\ call.at = 214
    /\ call' = [call EXCEPT !.at = AfterCall(call.site)]
    /\ UNCHANGED runVars

NextEdit ==
    \/ EditStart
    \/ UnlockField
    \/ Edit
    \/ LockField
    \/ Refresh
    \/ Put
    \/ RefreshAfterPut
    \/ Warn
    \/ Return

SpecEdit == InitEdit /\ [][NextEdit]_vars

(***************************************************************************)
(* Runs that are interrupted and resumed against a catalog whose second    *)
(* library has no artist; the calls of the server succeed.                 *)
(***************************************************************************)
MidCatalog ==
    [LIBRARIES |-> <<"L1", "L2", "L3">>,
     SectionArtists |-> [L1 |-> <<1>>, L2 |-> <<>>, L3 |-> <<3>>],
     ArtistTitle |-> (1 :> "A1") @@ (3 :> "A3"),
     ArtistAlbums |-> (1 :> <<11>>) @@ (3 :> <<14>>),
     AlbumTracks |-> (11 :> <<21>>) @@ (14 :> <<24>>),
     PartPaths |->
        (21 :> << <<"/", "m", "/", "d", "/", "f">> >>) @@
        (24 :> << <<"/", "m", "/", "h", " ", "[", "E", "]", "/", "g">> >>),
     reliable |-> TRUE]

MidTitle ==
    (11 :> <<"a">>) @@ (14 :> <<"c">>) @@ (21 :> <<"b">>) @@ (24 :> <<"e">>)

MidLabels == (11 :> {}) @@ (14 :> {}) @@ (21 :> {}) @@ (24 :> {})

InitResume ==
    /\ catalog = MidCatalog
    /\ call = NoCall
    /\ progressFile = <<>>
    /\ processedFile = <<>>
    /\ title = MidTitle
    /\ labels = MidLabels
    /\ title0 = MidTitle
    /\ InitProcess

\* the command lines of these runs: with or without --resume and --dry-run
ResumeArgSets ==
    [resume : BOOLEAN, force : {FALSE}, dry_run : BOOLEAN,
     remove_labels : {FALSE}, artist : {""}]

StartResumeRun ==
    /\ pc = "idle"
    /\ \E a \in ResumeArgSets : StartRunWith(a)

NextResume ==
    \/ StartResumeRun
    \/ SkipLibrary
    \/ ArtistUnbound
    \/ EnterArtist
    \/ ResumeSkipAlbum
    \/ ProcessedSkip
    \/ EnterAlbum
    \/ AlbumTitle
    \/ AlbumLabel
    \/ TrackTitle
    \/ TrackLabel
    \/ MarkProcessed
    \/ SaveProgress
    \/ AlbumLoopEnd
    \/ EndRun
    \/ Exit
    \/ Kill

SpecResume == InitResume /\ [][NextResume]_vars

(***************************************************************************)
(* Vocabulary of the properties                                            *)
(***************************************************************************)
RECURSIVE Flatten(_)
Flatten(ss) == IF ss = <<>> THEN <<>> ELSE Head(ss) \o Flatten(Tail(ss))

\* the albums of one artist, each with its library and artist
AlbumsOfArtist(lib, a) ==
    [k \in 1..Len(ArtistAlbums[a]) |->
        [lib |-> lib, artist |-> a, album |-> ArtistAlbums[a][k]]]

\* the albums of one library, artist by artist
AlbumsOfLibrary(lib) ==
    LET artists == SearchArtists(lib, args.artist)
    IN  Flatten([j \in 1..Len(artists) |-> AlbumsOfArtist(lib, artists[j])])

\* every album the catalog returns for the libraries to process, in
\* enumeration order
Enumeration ==
    Flatten([l \in 1..Len(LIBRARIES) |-> AlbumsOfLibrary(LIBRARIES[l])])

\* the key an album has when the run enumerates it
KeyAtStart(x) ==
    get_album_key(x.lib, ArtistTitle[x.artist], title0[x.album], x.album)

\* what processing one album consists of: its tracks are listed, it is
\* classified and its title settled, each track is visited in order, and
\* progress is saved for it
VisitsOfAlbum(x) ==
    << <<x.lib, "tracks", x.album>>, <<x.lib, "title", x.album>> >>
    \o [k \in 1..Len(AlbumTracks[x.album]) |->
            <<x.lib, "title", AlbumTracks[x.album][k]>>]
    \o << <<x.lib, "saveProgress", x.album>> >>

ExpectedVisits(xs) == Flatten([k \in 1..Len(xs) |-> VisitsOfAlbum(xs[k])])

TitleOps == {"titleOk", "editTitle", "editTitleRaised", "dryRunTitle"}

\* the same steps as the run made them
Visits ==
    LET steps == SelectSeq(trace, LAMBDA e :
                     e.op \in TitleOps \cup {"tracks", "saveProgress"})
    IN  [k \in 1..Len(steps) |->
            <<steps[k].lib,
              IF steps[k].op \in TitleOps THEN "title" ELSE steps[k].op,
              steps[k].item>>]

RunOver == pc \in {"done", "crashed"}

\* the calls that failed
IsFailure(e) ==
    \/ e.op \in {"sectionError", "searchError", "albumsError", "tracksError",
                 "editTitleRaised"}
    \/ e.op = "editTitle" /\ e.info # "primary"
    \/ e.op \in {"addLabel", "removeLabel"} /\ e.info = "raised"

\* no call of the run has failed
NoFailure == \A i \in 1..Len(trace) : ~IsFailure(trace[i])

\* the run started without a resume point
NoResumePoint == progress.last_library = ""

\* the positions of the saved resume point in the enumeration
ResumePositions ==
    {k \in 1..Len(Enumeration) :
        /\ Enumeration[k].lib = progress.last_library
        /\ <<ArtistTitle[Enumeration[k].artist], Enumeration[k].artist>>
               = progress.last_artist
        /\ KeyAtStart(Enumeration[k]) = progress.last_album}

\* the albums a run without force leaves out because of the processed set
NotInProcessedSet(x) == args.force \/ KeyAtStart(x) \notin processed_albums

\* C1: in a run without resume point, with an empty processed-album set and
\* no failing catalog call, every album of every artist of every library is
\* processed exactly once, in enumeration order, each album completed
\* (tracks listed, title settled, every track visited, progress saved)
\* before the next begins.
C1_EveryAlbumOnceInOrder ==
    (RunOver /\ NoResumePoint /\ processed_albums = {} /\ NoFailure)
        => Visits = ExpectedVisits(Enumeration)

\* C2: resuming from a saved record (L, A, B) that occurs in the enumeration,
\* the run skips everything before B and processes B and all that follows
\* as a run without resume would (the processed-set skip rule applying).
C2_ResumeFromRecord ==
    (RunOver /\ NoFailure /\ args.resume /\ ResumePositions # {})
        => LET k == CHOOSE j \in ResumePositions : TRUE
           IN  Visits = ExpectedVisits(
                   SelectSeq(SubSeq(Enumeration, k, Len(Enumeration)),
                             NotInProcessedSet))

\* the albums of a library, all artists
LibraryAlbumIds(lib) ==
    {b \in AlbumIds :
        \E j \in 1..Len(SectionArtists[lib]) :
            \E k \in 1..Len(ArtistAlbums[SectionArtists[lib][j]]) :
                ArtistAlbums[SectionArtists[lib][j]][k] = b}

\* C3: resume only skips completed work: every album skipped because it
\* lies before the resume point (its library is skipped, or the album loop
\* skips it) completed without error in a non-dry run.
C3_ResumeSkipsOnlyCompleted ==
    \A i \in 1..Len(trace) :
        /\ trace[i].op = "resumeSkip" => trace[i].item \in completed
        /\ trace[i].op = "skipLibrary"
               => LibraryAlbumIds(trace[i].lib) \subseteq completed

Last(q) == q[Len(q)]

\* the listing of the tracks of the album the loop is at
TracksListed ==
    trace[CHOOSE i \in 1..Len(trace) :
            /\ trace[i].op = "tracks"
            /\ \A j \in (i + 1)..Len(trace) : trace[j].op # "tracks"]

\* the record pointing at the album the loop is at: its library, its
\* artist's key and the key the album had when the loop reached it
RecordOfAlbum ==
    [last_library |-> library_name,
     last_artist |-> <<ArtistTitle[artist], artist>>,
     last_album |-> TracksListed.key]

\* C4: a run without --dry-run that reaches the end of the library loop
\* leaves neither the progress record nor the processed-album set behind,
\* and the run started next has no resume point and an empty processed set.
C4_ClearedOnCompletion ==
    /\ []((lastExit = "completed" /\ ~args.dry_run)
            => (progressFile = <<>> /\ processedFile = <<>>))
    /\ [][(pc = "idle" /\ lastExit = "completed" /\ ~args.dry_run
             /\ pc' = "library")
            => (/\ progress' = DefaultProgress
                /\ skip_until_library' = ""
                /\ skip_until_artist' = <<>>
                /\ skip_until_album' = <<>>
                /\ processed_albums' = {}
                /\ li' = 1)]_vars

\* a non-dry run that marked albums and saved progress has completed
C4_Witness ==
    /\ pc = "done"
    /\ ~args.dry_run
    /\ \E i \in 1..Len(trace) : trace[i].op = "markProcessed"
    /\ \E i \in 1..Len(trace) : trace[i].op = "saveProgress"

\* the calls that are part of processing an album
AlbumWorkOps ==
    TitleOps \cup {"tracks", "tracksError", "labelOk", "addLabel",
                   "dryRunAddLabel", "removeLabel", "dryRunRemoveLabel",
                   "markProcessed", "saveProgress"}

\* C5: without --force no call at all (track listing, classification, title
\* or label request, progress save, processed-set write) is made for an
\* album whose key is in the processed-album set loaded at the start of the
\* run, whatever the resume state; with --force no album is skipped by the
\* processed-set rule.
C5_ProcessedAlbumsUntouched ==
    \A i \in 1..Len(trace) :
        /\ (~args.force /\ trace[i].op \in AlbumWorkOps)
               => trace[i].key \notin processed_albums
        /\ trace[i].op = "processedSkip" => ~args.force

\* a resumed run has reached its resume album and skipped it because it is
\* in the processed set
C5_Witness ==
    /\ args.resume
    /\ progress.last_album # <<>>
    /\ \E i \in 1..Len(trace) :
          /\ trace[i].op = "processedSkip"
          /\ trace[i].key = progress.last_album

IsAlbumException(e) ==
    \/ e.op \in {"tracksError", "editTitleRaised"}
    \/ e.op \in {"addLabel", "removeLabel"} /\ e.info = "raised"

\* the exception logged at position i was caught by the album loop's
\* handler: the progress record is saved pointing at the album, the album
\* is not marked processed, and the loop is at the next album
Checkpointed(i) ==
    /\ i = Len(trace) => pc = "albumError"
    /\ i < Len(trace)
         => /\ trace[i + 1].op = "saveProgress"
            /\ trace[i + 1].info = "error"
            /\ trace[i + 1].lib = trace[i].lib
            /\ trace[i + 1].key = trace[i].key
    /\ i + 1 = Len(trace)
         => /\ progressFile =
                  <<[last_library |-> trace[i].lib,
                     last_artist |-> <<ArtistTitle[artist], artist>>,
                     last_album |-> trace[i].key]>>
            /\ pc = "album"
            /\ ai <= Len(albums) + 1
            /\ albums[ai - 1] = trace[i + 1].item
    /\ \A j \in 1..Len(trace) :
          ~(/\ trace[j].op = "markProcessed"
            /\ trace[j].lib = trace[i].lib
            /\ trace[j].key = trace[i].key)

LibraryIndex(lib) == CHOOSE l \in 1..Len(LIBRARIES) : LIBRARIES[l] = lib

\* C8: no failing catalog call ends the run: it always reaches its
\* end-of-run step, and after a library that could not be selected every
\* later library is still gone through.
C8_NoFailureEndsRun ==
    /\ pc # "crashed"
    /\ pc = "done"
         => \A i \in 1..Len(trace) :
               trace[i].op = "sectionError"
                 => \A l \in (LibraryIndex(trace[i].lib) + 1)..Len(LIBRARIES) :
                       \E j \in (i + 1)..Len(trace) :
                           trace[j].lib = LIBRARIES[l]

\* the failed calls of the run
Failures == {i \in 1..Len(trace) : IsFailure(trace[i])}

\* C9: when listing the albums of one artist raises, only that artist is
\* skipped: all other artists of the library and all later libraries are
\* processed as if the artist were not there.
C9_OnlyFailingArtistSkipped ==
    (/\ RunOver
     /\ NoResumePoint
     /\ processed_albums = {}
     /\ Cardinality(Failures) = 1
     /\ \A i \in Failures : trace[i].op = "albumsError")
        => LET e == trace[CHOOSE i \in Failures : TRUE]
           IN  Visits = ExpectedVisits(
                   SelectSeq(Enumeration,
                             LAMBDA x : ~(x.lib = e.lib /\ x.artist = e.item)))

\* a mutation that was requested and is not applied on the remote entry
IsUnapplied(e) ==
    \/ e.op \in {"editTitle", "editTitleRaised"} /\ e.info = "failed"
    \/ e.op \in {"addLabel", "removeLabel"} /\ e.info = "raised"

\* C10: an album key is added to the processed-album set only after every
\* title and label mutation requested for the album and its tracks was
\* applied and verified (not after a title edit that ended with the
\* warning), and never in a dry run.
C10_MarkedOnlyWhenApplied ==
    \A j \in 1..Len(trace) :
        trace[j].op = "markProcessed"
          => /\ ~args.dry_run
             /\ \A i \in 1..(j - 1) :
                   (trace[i].lib = trace[j].lib /\ trace[i].key = trace[j].key)
                     => ~IsUnapplied(trace[i])

\* the calls that change the remote catalog
MutationOps == {"editTitle", "editTitleRaised", "addLabel", "removeLabel"}

\* C11: after a run that went to its end with resume disabled, not a dry
\* run and with every mutation succeeding, a second run of the same command
\* line against the unchanged catalog requests no title edit, no label
\* addition and no label removal, whatever titles, labels and paths the
\* catalog started with.
C11_SecondRunRequestsNothing ==
    (catalog \in TinyCatalogs /\ runs >= 2)
      => \A i \in 1..Len(trace) : trace[i].op \notin MutationOps

\* the mutations the run has requested, in order
Requests ==
    LET m == SelectSeq(trace, LAMBDA e : e.op \in MutationOps)
    IN  [i \in 1..Len(m) |-> <<m[i].op, m[i].item>>]

\* C12: on the "Greatest Hits" catalog a run ends with the album titled
\* "[E] Greatest Hits" and labelled Explicit, track "Intro" untouched and
\* unlabelled, track "Rough" titled "[E] Rough" and labelled Explicit; the
\* run that finds the catalog untouched requests these four mutations and
\* no other.
C12_GreatestHits ==
    (catalog = HitsCatalog /\ pc = "done")
      => /\ title = (11 :> E_TOKEN \o <<" ">> \o HitsTitle[11])
                    @@ (21 :> HitsTitle[21])
                    @@ (22 :> E_TOKEN \o <<" ">> \o HitsTitle[22])
         /\ labels = (11 :> {EXPLICIT_LABEL}) @@ (21 :> {})
                     @@ (22 :> {EXPLICIT_LABEL})
         /\ title0 = HitsTitle
              => Requests = << <<"editTitle", 11>>, <<"addLabel", 11>>,
                               <<"editTitle", 22>>, <<"addLabel", 22>> >>

\* the run that found the "Greatest Hits" catalog untouched has ended
C12_Witness ==
    /\ catalog = HitsCatalog
    /\ pc = "done"
    /\ title0 = HitsTitle
    /\ title # HitsTitle

C14_ProgressFileNeverHalfWritten ==
    \/ progressFile = <<>>
    \/ DOMAIN progressFile[1] = {"last_library", "last_artist", "last_album"}

\* C15: loading progress is never fatal: whatever the progress file holds,
\* the run does not die of it, and a run that resumes from a file that
\* holds no saved record starts from the beginning.
C15_LoadNeverFatal ==
    /\ pc # "crashed"
    /\ (args.resume /\ pc = "library" /\ li = 1 /\ trace = <<>>
        /\ progressFile \in {<<>>, <<Corrupt>>, <<JsonArray>>, <<EmptyObject>>})
         => (/\ progress = DefaultProgress
             /\ skip_until_library = ""
             /\ skip_until_album = <<>>)

\* t contains the marker "[E]" in some letter case
ContainsMarker(t) ==
    \E i \in 1..(Len(t) - 2) :
        t[i] = "[" /\ t[i + 1] \in {"E", "e"} /\ t[i + 2] = "]"

\* C16: the desired title is idempotent: computed again from its own
\* result with the same verdict, it is that result.
C16_DesiredTitleIdempotent ==
    call.fn = "desiredTitleAgain" => call.result2 = call.result

\* the number of positions of t where the marker starts
MarkerCount(t) ==
    Cardinality({i \in 1..(Len(t) - 2) :
                    t[i] = "[" /\ t[i + 1] \in {"E", "e"} /\ t[i + 2] = "]"})

\* C17: the stripped title holds no marker in any letter case, no run of
\* two or more whitespace characters and no leading or trailing
\* whitespace; the marked title holds the marker exactly once, as its
\* prefix.
C17_NormalForm ==
    (call.fn = "desiredTitle")
      => LET r == call.result
         IN  IF call.verdict
             THEN /\ Len(r) >= 3
                  /\ SubSeq(r, 1, 3) = <<"[", "E", "]">>
                  /\ MarkerCount(r) = 1
             ELSE /\ ~ContainsMarker(r)
                  /\ \A i \in 1..(Len(r) - 1) : ~(r[i] = " " /\ r[i + 1] = " ")
                  /\ r # <<>> => (r[1] # " " /\ r[Len(r)] # " ")

\* C18: round trip: stripping the marked title gives the stripped title,
\* and marking the stripped title gives the marked title.
C18_RoundTrip ==
    (call.fn = "desiredTitleFlipped")
      => IF call.verdict
         THEN call.result2 = strip_e(call.arg)
         ELSE call.result2 = apply_front(call.arg)

\* the components of path p between its slashes, from position i on
RECURSIVE Components(_, _)
Components(p, i) ==
    IF i > Len(p) THEN << <<>> >>
    ELSE LET rest == Components(p, i + 1)
         IN  IF p[i] = "/" THEN << <<>> >> \o rest
             ELSE << <<p[i]>> \o Head(rest) >> \o Tail(rest)

\* the base file name: what follows the last slash
FileNameOf(p) == Last(Components(p, 1))

\* the name of the directory the file lies in: the last non-empty component
\* before the file name, empty when there is none
ParentNameOf(p) ==
    LET cs == Components(p, 1)
        ds == SelectSeq(SubSeq(cs, 1, Len(cs) - 1), LAMBDA c : c # <<>>)
    IN  IF ds = <<>> THEN <<>> ELSE Last(ds)

\* the standalone word "explicit", in any letter case, occurs in s
ContainsWord(s) ==
    \E i \in 1..(Len(s) - 7) :
        /\ [k \in 1..8 |-> Lower(s[i + k - 1])] = EXPLICIT_WORD
        /\ i > 1 => ~IsWordChar(s[i - 1])
        /\ i + 8 <= Len(s) => ~IsWordChar(s[i + 8])

\* path p with everything before its file name replaced by d
WithDirectory(p, d) == d \o <<"/">> \o FileNameOf(p)

\* path p with its file name replaced by f
WithFileName(p, f) == SubSeq(p, 1, Len(p) - Len(FileNameOf(p))) \o f

\* C19: a track is explicit exactly when the base file name of one of its
\* part paths holds "[e]" (any case) or the standalone word "explicit";
\* a track without part paths is clean; the directories of the paths do
\* not change the verdict.
C19_TrackVerdictByFileName ==
    (call.fn = "classifyTrack")
      => LET ps == call.arg[1]
         IN  /\ call.result
                  = (\E i \in 1..Len(ps) :
                        \/ ContainsMarker(FileNameOf(ps[i]))
                        \/ ContainsWord(FileNameOf(ps[i])))
             /\ ps = <<>> => call.result = FALSE
             /\ \A d \in HigherDirs \cup ParentDirs :
                   track_filename_is_explicit(
                       [i \in 1..Len(ps) |-> WithDirectory(ps[i], d)])
                     = call.result

\* a track in an explicit folder, with a clean file name, is clean
C19_Witness ==
    /\ call.fn = "classifyTrack"
    /\ call.result = FALSE
    /\ call.arg[1] # <<>>
    /\ \E i \in 1..Len(call.arg[1]) : ContainsMarker(ParentNameOf(call.arg[1][i]))

\* C20: an album is explicit exactly when the name of the directory of the
\* first part path of its first track holds "[e]" (any case) or the
\* standalone word "explicit"; without such a path it is clean; the file
\* name and the directories above that directory do not change the
\* verdict.
C20_AlbumVerdictByFolder ==
    (call.fn = "classifyAlbum")
      => LET ts == call.arg
             has == ts # <<>> /\ ts[1] # <<>>
         IN  /\ call.result
                  = (/\ has
                     /\ \/ ContainsMarker(ParentNameOf(ts[1][1]))
                        \/ ContainsWord(ParentNameOf(ts[1][1])))
             /\ has => /\ \A f \in {<<"f", "[", "E", "]">>, <<"e", "x", "p", "l", "i", "c", "i", "t">>, <<"g">>} :
                             album_folder_is_explicit(
                                 << <<WithFileName(ts[1][1], f)>> >>) = call.result
                       /\ \A h \in {<<"/", "x">>, <<"/", "[", "e", "]">>} :
                             (ts[1][1][1] = "/" /\ ParentNameOf(ts[1][1]) # <<>>)
                               => album_folder_is_explicit(
                                      << <<h \o ts[1][1]>> >>) = call.result

\* an album in an explicit folder whose sample file name is clean
C20_Witness ==
    /\ call.fn = "classifyAlbum"
    /\ call.result = TRUE
    /\ ~ContainsMarker(FileNameOf(call.arg[1][1]))
    /\ ~ContainsWord(FileNameOf(call.arg[1][1]))

\* C21: with --force an album whose key is in the persisted processed set
\* is not skipped; when its track loop has ended the persisted list holds
\* its key exactly once and still holds every key it held before.
C21_ForceMarksOnce ==
    /\ [](args.force
            => \A i \in 1..Len(trace) : trace[i].op # "processedSkip")
    /\ [][(args.force /\ ~args.dry_run /\ pc = "track" /\ ti > Len(tracks)
           /\ pc' = "saveProgress")
            => (/\ processedFile' # <<>>
                /\ CopiesIn(album_key, processedFile'[1].albums) = 1
                /\ \A k \in load_processed_albums(processedFile) :
                      CopiesIn(k, processedFile'[1].albums) = 1)]_vars

\* a run with --force has gone through the tracks of an album whose key
\* the persisted set holds already, next to another key
C21_Witness ==
    /\ args.force
    /\ pc = "track"
    /\ ti > Len(tracks)
    /\ album_key \in load_processed_albums(processedFile)
    /\ Cardinality(load_processed_albums(processedFile)) >= 2
    /\ \E i \in 1..Len(trace) : trace[i].op = "tracks" /\ trace[i].key = album_key

\* the requests of the primary path
PrimaryRequests == {"unlockField", "edit", "lockField", "refresh"}

\* the positions of the direct PUT among the requests sent
PutsOf(sent) == {j \in 1..Len(sent) : sent[j].req = "put"}

\* the primary path has verified: its re-fetch brought the desired title
PrimaryVerified(c) ==
    \E i \in 1..Len(c.sent) :
        /\ c.sent[i].line = 194
        /\ ~c.sent[i].raised
        /\ c.sent[i].seen = <<c.new_title>>

\* the call is over
Returned(c) == c.at \notin 179..214

\* C22: within one call of the title edit nothing is sent when the current
\* title is the desired one; otherwise (and outside a dry run) the first
\* request is one of the primary path, in the order unlock, set, lock,
\* re-fetch; the direct PUT is sent at most once, after primary requests
\* only, and only after one of them raised or the re-fetch brought another
\* title than the desired one; when the primary path verifies, no PUT is
\* sent.
C22_EditStepsOrdered ==
    (call.fn = "edit_title")
      => LET s == call.sent
         IN  /\ call.curr = call.new_title => s = <<>>
             /\ (Returned(call) /\ call.curr # call.new_title /\ ~call.dry_run)
                  => (s # <<>> /\ s[1].req \in {"unlockField", "edit"})
             /\ \A i \in 1..Len(s), j \in 1..Len(s) :
                   (i < j /\ s[i].req \in PrimaryRequests /\ s[j].req \in PrimaryRequests
                    /\ s[i].line <= 194 /\ s[j].line <= 194)
                     => s[i].line < s[j].line
             /\ Cardinality(PutsOf(s)) <= 1
             /\ \A j \in PutsOf(s) :
                   /\ j > 1
                   /\ \A i \in 1..(j - 1) :
                         s[i].req \in PrimaryRequests /\ s[i].line <= 194
                   /\ \/ \E i \in 1..(j - 1) : s[i].raised
                      \/ \E i \in 1..(j - 1) :
                            /\ s[i].req = "refresh"
                            /\ ~s[i].raised
                            /\ s[i].seen # <<call.new_title>>
             /\ PrimaryVerified(call) => PutsOf(s) = {}

\* a call whose primary path went through all four requests without
\* verifying and whose direct PUT then brought the title
C22_Witness ==
    /\ call.fn = "edit_title"
    /\ Returned(call)
    /\ call.out = "updatedByPut"
    /\ Len(call.sent) = 6
    /\ \A i \in 1..Len(call.sent) : ~call.sent[i].raised

\* C23: the title edit never lets an exception out: whatever its requests
\* do, it comes back to the statement after its call (the label step of
\* the album or track), never to the handler of the album's body, having
\* printed at most one warning.
C23_EditNeverRaises ==
    (call.fn = "edit_title")
      => /\ call.at # 560
         /\ call.warned <= 1
         /\ Returned(call)
              => /\ call.at = AfterCall(call.site)
                 /\ call.out \in {"same", "dry", "updated", "updatedByPut", "warned"}
                 /\ call.out = "warned" <=> call.warned = 1

\* a call in which a request of the primary path and the direct PUT both
\* raised, back at the label step with the warning printed
C23_Witness ==
    /\ call.fn = "edit_title"
    /\ Returned(call)
    /\ call.out = "warned"
    /\ \E i \in 1..Len(call.sent) : call.sent[i].line <= 194 /\ call.sent[i].raised
    /\ \E i \in 1..Len(call.sent) : call.sent[i].line = 203 /\ call.sent[i].raised
    /\ call.remote = call.curr

\* the request of event e raised
Raised(e, op) == e.op = op /\ e.info = "raised"

\* the tracks of the album of event e that the run has visited for it
TracksVisited(e) ==
    {trace[k].item : k \in {n \in 1..Len(trace) :
                               /\ trace[n].op \in TitleOps
                               /\ trace[n].key = e.key
                               /\ trace[n].lib = e.lib
                               /\ trace[n].item \in TrackIds}}

\* C24: a label removal that raises is swallowed: unless a label addition
\* raises later for the same album, the album's track loop goes to its end
\* over every track and the album is marked processed before its progress
\* is saved. A label addition that raises, for the album or a track, ends
\* the album there: the next thing that happens is the saving of progress
\* by the handler, pointing at that album; none of its remaining tracks is
\* visited, it is not marked processed, and the album loop stands at the
\* next album.
C24_LabelErrorsAsymmetric ==
    /\ \A i \in 1..Len(trace) :
          Raised(trace[i], "removeLabel")
            => \/ \E j \in (i + 1)..Len(trace) :
                     Raised(trace[j], "addLabel") /\ trace[j].key = trace[i].key
               \/ \A j \in (i + 1)..Len(trace) :
                     (trace[j].op = "saveProgress" /\ trace[j].key = trace[i].key)
                       => /\ trace[j].info = "done"
                          /\ trace[j - 1].op = "markProcessed"
                          /\ trace[j - 1].key = trace[i].key
                          /\ \A k \in 1..Len(AlbumTracks[trace[i].key[4]]) :
                                AlbumTracks[trace[i].key[4]][k]
                                   \in TracksVisited(trace[i])
    /\ \A i \in 1..Len(trace) :
          Raised(trace[i], "addLabel")
            => /\ i < Len(trace)
                  => /\ trace[i + 1].op = "saveProgress"
                     /\ trace[i + 1].info = "error"
                     /\ trace[i + 1].key = trace[i].key
               /\ \A j \in 1..Len(trace) :
                     (trace[j].key = trace[i].key /\ trace[j].lib = trace[i].lib)
                       => /\ trace[j].op # "markProcessed"
                          /\ j <= i + 1
               /\ (i + 1 = Len(trace) /\ pc # "idle")
                     => /\ pc = "album"
                        /\ progressFile # <<>>
                        /\ progressFile[1].last_library = trace[i].lib
                        /\ progressFile[1].last_album = trace[i].key

\* the removal of an album's label has raised; the album's tracks have been
\* visited since and the album has been marked processed
C24_Witness ==
    \E i \in 1..Len(trace) :
        /\ Raised(trace[i], "removeLabel")
        /\ trace[i].item \in AlbumIds
        /\ AlbumTracks[trace[i].item] # <<>>
        /\ \E j \in (i + 1)..Len(trace) :
              trace[j].op = "markProcessed" /\ trace[j].key = trace[i].key
        /\ Last(trace).op = "saveProgress"
        /\ Last(trace).key = trace[i].key

\* the verdict of an item of the catalog: of an album from the part paths
\* of its first track, of a track from its own part paths
OwnVerdict(item) ==
    IF item \in AlbumIds
    THEN album_folder_is_explicit(
             IF AlbumTracks[item] # <<>>
             THEN << PartPaths[AlbumTracks[item][1]] >>
             ELSE <<>>)
    ELSE track_filename_is_explicit(PartPaths[item])

\* C25: for every album and track a run has processed, a title mutation was
\* requested if and only if the desired title (the marked title for an
\* explicit verdict, the stripped title for a clean one) differs from the
\* title the item had, and the title requested is that desired title; so a
\* clean item whose title has no marker but surplus whitespace is given its
\* stripped title, a track as well as an album.
C25_TitleMutationIffDiffers ==
    (catalog.reliable /\ ~args.dry_run)
      => \A i \in 1..Len(trace) :
            trace[i].op \in TitleOps
              => LET item == trace[i].item
                     desired == DesiredAlbumTitle(OwnVerdict(item), title0[item])
                 IN  /\ trace[i].op = "editTitle" <=> desired # title0[item]
                     /\ trace[i].op = "editTitle" => title[item] = desired

\* the step has appended an event of the given kind to the history
Logged(op) == Len(trace') = Len(trace) + 1 /\ trace'[Len(trace')].op = op

\* C26: at the label step of a track (outside a dry run) the addition of
\* the label "Explicit" is requested if and only if the track's own verdict
\* is explicit and the track lacks the label, and its removal if and only
\* if --remove-labels is set, the track's own verdict is clean and the
\* track has the label, whatever the verdict of the album; so a clean track
\* gains no label and an explicit track has the label afterwards.
C26_TrackLabelByOwnVerdict ==
    [][(pc = "trackLabel" /\ pc' # "idle" /\ ~args.dry_run /\ catalog.reliable)
        => LET own == OwnVerdict(track)
               has == has_label(track, EXPLICIT_LABEL)
           IN  /\ Logged("addLabel") <=> (own /\ ~has)
               /\ Logged("removeLabel") <=> (args.remove_labels /\ ~own /\ has)
               /\ ~own => labels'[track] \subseteq labels[track]
               /\ own => EXPLICIT_LABEL \in labels'[track]]_vars

\* an explicit track of a clean album has gained the label
C26_Witness ==
    /\ catalog \in TinyCatalogs
    /\ pc = "track"
    /\ ~album_is_explicit
    /\ trace # <<>>
    /\ Last(trace).op = "addLabel"
    /\ Last(trace).item = 21
    /\ EXPLICIT_LABEL \in labels[21]

\* the run resumes from a saved record (L, A, B) whose library L is among
\* the libraries to process, while L has no artist with the key A, or the
\* artist with the key A has no album with the key B
ResumePointAbsent ==
    /\ args.resume
    /\ \E l \in 1..Len(LIBRARIES) : LIBRARIES[l] = progress.last_library
    /\ progress.last_artist # <<>>
    /\ progress.last_album # <<>>
    /\ LET L == progress.last_library
           as == {SectionArtists[L][j] : j \in 1..Len(SectionArtists[L])}
       IN  \A a \in as :
              <<ArtistTitle[a], a>> = progress.last_artist
                => \A k \in 1..Len(ArtistAlbums[a]) :
                      get_album_key(L, ArtistTitle[a], title0[ArtistAlbums[a][k]],
                                    ArtistAlbums[a][k]) # progress.last_album

\* C27: when the run resumes from a record whose library is enumerated
\* but whose artist or album is not found in it, no album of that library
\* is processed in the run, no album of a later library is skipped by the
\* resume logic, and every later library is gone through: a run that ends
\* without a failing catalog call has listed artists in each of them.
C27_AbsentResumePoint ==
    (ResumePointAbsent /\ pc \notin {"idle"})
      => /\ \A i \in 1..Len(trace) :
               /\ trace[i].lib = progress.last_library
                    => trace[i].op \notin AlbumWorkOps
               /\ trace[i].op = "resumeSkip"
                    => trace[i].lib = progress.last_library
         /\ (RunOver /\ NoFailure)
              => \A l \in 1..Len(LIBRARIES) :
                    l > LibraryIndex(progress.last_library)
                      => \E i \in 1..Len(trace) :
                            /\ trace[i].lib = LIBRARIES[l]
                            /\ trace[i].op \in {"albums", "noArtists"}

\* C28: a dry run saves no changes: no step of a dry run changes the
\* progress record or the processed-album set, so the files are after the
\* run what they were before it and the next run resumes as if the dry run
\* had not happened.
C28_DryRunSavesNothing ==
    [][(args.dry_run /\ pc \notin {"idle", "done", "crashed"} /\ pc' # "idle")
        => UNCHANGED storeVars]_vars

====
